---- MODULE Spec2Model ----
(***************************************************************************)
(* A model of generate_map.py: the filename timestamp codec, the           *)
(* decimal <-> degrees/minutes/seconds codec, the closest-match resolver,  *)
(* the metadata writer and the batch loop of main.                         *)
(*                                                                         *)
(* Filenames are sequences of one-character strings, so that the regular   *)
(* expression search, the prefix test and the extension tests work on the  *)
(* characters of a name.  Optional values are sequences of length 0 or 1:  *)
(* None is << >> and a present value v is << v >>.                         *)
(***************************************************************************)
EXTENDS Integers, Sequences, FiniteSets, TLC

VARIABLES
    \* ---- timestamp codec, called on its own (SpecTimestamp)
    ts_pc,              \* "idle" | "call" | "ret"
    stamp,              \* the fields the filename was formatted from
    filename,           \* the argument of extract_timestamp
    dt,                 \* its return value
    \* ---- coordinate codec, called on its own (SpecCoord)
    co_pc,              \* "idle" | "call" | "enc" | "dec"
    value,              \* the decimal handed to to_deg
    dms,                \* what to_deg returned
    decimal,            \* what get_decimal_from_dms made of it
    \* ---- the reference library and the resolver
    pc,                 \* where main (or the resolver's caller) stands
    refDir,             \* the reference directory: None, or its listing of files
    reference_images,   \* the index get_reference_images built
    target,             \* the filename handed to the resolver called on its own
    lat, lon,           \* the resolver's result
    opened,             \* history: reference images the last resolve opened
    \* ---- the batch loop of main and the metadata writer
    listing,            \* os.listdir(PHOTOS_DIR), or None without the directory
    screenshot_dir,     \* os.listdir("screenshot"), or None without it
    piexif,             \* whether `import piexif` succeeds
    disk,               \* the files of PHOTOS_DIR: path -> None or content
    i,                  \* position of the loop in the listing
    filepath,           \* set_gps_location's working path
    original_filepath,  \* set_gps_location's original_filepath
    final_path,         \* what set_gps_location returned
    new_photos_data,    \* the result list
    processed,          \* history: times each listed file entered the loop body
    persisted,          \* history: positions whose coordinate piexif.insert wrote
    recorded,           \* history: the position each record was made for
    raised,             \* history: positions at which the writer raised
    failed,             \* history: the current write took an except branch
    removeFailed,       \* history: the current write's os.remove raised
    preDisk             \* history: the disk when the current write began

tsVars == <<ts_pc, stamp, filename, dt>>
coVars == <<co_pc, value, dms, decimal>>
rsVars == <<pc, refDir, reference_images, target, lat, lon, opened>>
mainVars ==
    <<listing, screenshot_dir, piexif, disk, i, filepath, original_filepath,
      final_path, new_photos_data, processed, persisted, recorded, raised,
      failed, removeFailed, preDisk>>
vars == <<tsVars, coVars, rsVars, mainVars>>

\* A local variable: e is evaluated once and F applied to its value
Bind(e, F(_)) == CHOOSE r \in { F(x) : x \in {e} } : TRUE

None == << >>
Some(v) == << v >>
IsSome(o) == o # << >>
Get(o) == o[1]

(***************************************************************************)
(* Characters and strings                                                  *)
(***************************************************************************)
Digits == <<"0", "1", "2", "3", "4", "5", "6", "7", "8", "9">>

IsDigit(c) == \E k \in 1..10 : Digits[k] = c

DigitVal(c) == (CHOOSE k \in 1..10 : Digits[k] = c) - 1

\* "%02d"
TwoDigits(n) == <<Digits[(n \div 10) + 1], Digits[(n % 10) + 1]>>

\* int() of a group of two digit characters
Int2(s, p) == DigitVal(s[p]) * 10 + DigitVal(s[p + 1])

\* s[p .. p+Len(w)-1] = w
HasAt(s, p, w) ==
    /\ p >= 1
    /\ p + Len(w) - 1 <= Len(s)
    /\ \A k \in 1..Len(w) : s[p + k - 1] = w[k]

StartsWith(s, w) == HasAt(s, 1, w)

EndsWith(s, w) == HasAt(s, Len(s) - Len(w) + 1, w)

(***************************************************************************)
(* Timestamp codec: extract_timestamp                                      *)
(***************************************************************************)
YearDigits == <<"2", "0", "2", "2">>

SamsungPrefix == <<"S", "A", "M", "S", "U", "N", "G">>

SamsungOffsetHours == 9

\* datetime's table for 2022, which is not a leap year
DaysInMonth == <<31, 28, 31, 30, 31, 30, 31, 31, 30, 31, 30, 31>>

RECURSIVE DaysBeforeMonth(_)
DaysBeforeMonth(month) ==
    IF month <= 1 THEN 0 ELSE DaysBeforeMonth(month - 1) + DaysInMonth[month - 1]

\* datetime(2022, month, day, hour, minute, second) raises ValueError unless:
ValidDateTime(month, day, hour, minute, second) ==
    /\ month \in 1..12
    /\ day >= 1
    /\ day <= DaysInMonth[month]
    /\ hour \in 0..23
    /\ minute \in 0..59
    /\ second \in 0..59

\* A datetime of 2022 as its number of seconds since 2022-01-01 00:00:00
\* (negative for a time in 2021).  timedelta arithmetic is integer
\* arithmetic on this number.
DateTime(month, day, hour, minute, second) ==
    ((DaysBeforeMonth(month) + (day - 1)) * 24 + hour) * 3600 + minute * 60 + second

\* r"2022(\d{2})(\d{2})_(\d{2})(\d{2})(\d{2})" matches at position p
MatchAt(s, p) ==
    /\ HasAt(s, p, YearDigits)
    /\ p + 14 <= Len(s)
    /\ \A k \in 4..7 : IsDigit(s[p + k])
    /\ s[p + 8] = "_"
    /\ \A k \in 9..14 : IsDigit(s[p + k])

\* re.search: the leftmost match, or None
ReSearch(s) ==
    IF \E p \in 1..Len(s) : MatchAt(s, p)
    THEN Some(CHOOSE p \in 1..Len(s) :
                 MatchAt(s, p) /\ \A q \in 1..(p - 1) : ~MatchAt(s, q))
    ELSE None

\* extract_timestamp with the device correction left out
ExtractTimestampNoOffset(fn) ==
    Bind(ReSearch(fn), LAMBDA match :
    IF IsSome(match)
    THEN LET p      == Get(match)
             month  == Int2(fn, p + 4)
             day    == Int2(fn, p + 6)
             hour   == Int2(fn, p + 9)
             minute == Int2(fn, p + 11)
             second == Int2(fn, p + 13)
         IN  IF ValidDateTime(month, day, hour, minute, second)
             THEN Some(DateTime(month, day, hour, minute, second))
             ELSE None
    ELSE None)

ExtractTimestamp(fn) ==
    Bind(ReSearch(fn), LAMBDA match :
    IF IsSome(match)
    THEN LET p      == Get(match)
             month  == Int2(fn, p + 4)
             day    == Int2(fn, p + 6)
             hour   == Int2(fn, p + 9)
             minute == Int2(fn, p + 11)
             second == Int2(fn, p + 13)
         IN  IF ValidDateTime(month, day, hour, minute, second)
             THEN LET t == DateTime(month, day, hour, minute, second) IN
                  IF StartsWith(fn, SamsungPrefix)
                  THEN Some(t - SamsungOffsetHours * 3600)
                  ELSE Some(t)
             ELSE None   \* ValueError caught, None returned
    ELSE None)

(***************************************************************************)
(* extract_timestamp called on its own, on filenames formatted from        *)
(* chosen fields.                                                          *)
(***************************************************************************)
StampPrefixes ==
    { << >>,
      <<"I", "M", "G", "_">>,
      <<"S", "A", "M", "S", "U", "N", "G", "_">>,
      <<"s", "a", "m", "s", "u", "n", "g", "_">>,
      <<"X", "S", "A", "M", "S", "U", "N", "G", "_">>,
      <<"2", "0", "2", "2">> }

StampYears == { YearDigits, <<"2", "0", "2", "1">> }
StampMonths == {0, 1, 2, 4, 12, 13}
StampDays == {0, 1, 28, 29, 31, 32}
StampSeps == {"_", "-"}
StampHours == {0, 8, 9, 23, 24}
StampMinutes == {0, 59, 60}
StampSeconds == {0, 59, 60}
StampTails == { <<".", "j", "p", "g">>, <<"1", ".", "j", "p", "g">> }

Stamps ==
    [prefix : StampPrefixes, year : StampYears, month : StampMonths,
     day : StampDays, sep : StampSeps, hour : StampHours,
     minute : StampMinutes, second : StampSeconds, tail : StampTails]

\* f"{prefix}{year}{month:02d}{day:02d}{sep}{hour:02d}{minute:02d}{second:02d}{tail}"
FormatName(st) ==
    st.prefix \o st.year \o TwoDigits(st.month) \o TwoDigits(st.day) \o <<st.sep>>
      \o TwoDigits(st.hour) \o TwoDigits(st.minute) \o TwoDigits(st.second) \o st.tail

IdleStamp ==
    [prefix |-> << >>, year |-> YearDigits, month |-> 1, day |-> 1, sep |-> "_",
     hour |-> 0, minute |-> 0, second |-> 0, tail |-> << >>]

TsIdle == ts_pc = "idle" /\ stamp = IdleStamp /\ filename = << >> /\ dt = None
CoIdle == co_pc = "idle" /\ value = None /\ dms = None /\ decimal = None
MainIdle ==
    /\ listing = None /\ screenshot_dir = None /\ piexif = TRUE /\ disk = << >>
    /\ i = 0 /\ filepath = << >> /\ original_filepath = << >> /\ final_path = << >>
    /\ new_photos_data = << >> /\ processed = << >> /\ persisted = {}
    /\ recorded = << >> /\ raised = {} /\ failed = FALSE /\ removeFailed = FALSE
    /\ preDisk = << >>
RsIdle ==
    /\ pc = "idle" /\ refDir = None /\ reference_images = << >> /\ target = << >>
    /\ lat = None /\ lon = None /\ opened = 0

InitTimestamp ==
    /\ ts_pc = "call"
    /\ stamp \in Stamps
    /\ filename = FormatName(stamp)
    /\ dt = None
    /\ CoIdle
    /\ RsIdle
    /\ MainIdle

CallExtractTimestamp ==
    /\ ts_pc = "call"
    /\ dt' = ExtractTimestamp(filename)
    /\ ts_pc' = "ret"
    /\ UNCHANGED <<stamp, filename, coVars, rsVars, mainVars>>

NextTimestamp == CallExtractTimestamp

SpecTimestamp == InitTimestamp /\ [][NextTimestamp]_vars

\* The filename was formatted with the fixed year and the "_" separator
StampMatches(st) == st.year = YearDigits /\ st.sep = "_"

\* The fields are a date and time of the calendar of 2022
StampIsCalendar(st) ==
    /\ st.month \in 1..12
    /\ st.day >= 1
    /\ st.month \in {1, 3, 5, 7, 8, 10, 12} => st.day <= 31
    /\ st.month \in {4, 6, 9, 11} => st.day <= 30
    /\ st.month = 2 => st.day <= 28
    /\ st.hour < 24 /\ st.minute < 60 /\ st.second < 60

StampTime(st) == DateTime(st.month, st.day, st.hour, st.minute, st.second)

GcdOf[p \in Nat \X Nat] == IF p[2] = 0 THEN p[1] ELSE GcdOf[<<p[2], p[1] % p[2]>>]

GCD(a, b) == GcdOf[<<a, b>>]

\* the rational num/den in lowest terms (den > 0, num >= 0)
Rat(num, den) ==
    Bind(<<num, den>>, LAMBDA p :
    Bind(GCD(p[1], p[2]), LAMBDA g : [num |-> p[1] \div g, den |-> p[2] \div g]))

RatZero == [num |-> 0, den |-> 1]
RatFloor(r) == r.num \div r.den
RatFrac(r) == Rat(r.num % r.den, r.den)
RatMulInt(r, k) ==
    LET g == GCD(k, r.den) IN Rat(r.num * (k \div g), r.den \div g)
RatDivInt(r, k) ==
    LET g == GCD(r.num, k) IN Rat(r.num \div g, r.den * (k \div g))
RatAdd(r, q) ==
    Bind((r.den \div GCD(r.den, q.den)) * q.den, LAMBDA l :
         Rat(r.num * (l \div r.den) + q.num * (l \div q.den), l))

\* Python 3 round(): to the nearest integer, a tie to the even one
RoundHalfEven(r) ==
    LET q   == r.num \div r.den
        rem == r.num % r.den
    IN  IF 2 * rem < r.den THEN q
        ELSE IF 2 * rem > r.den THEN q + 1
        ELSE IF q % 2 = 0 THEN q ELSE q + 1

\* the float  (-1)^neg * (whole + frac),  frac a rational
Float(neg, whole, frac) ==
    Bind(frac, LAMBDA f :
         [neg |-> neg, whole |-> whole + RatFloor(f), frac |-> RatFrac(f)])

IsZero(x) == x.whole = 0 /\ x.frac.num = 0
IsNegative(x) == x.neg /\ ~IsZero(x)         \* x < 0; false of -0.0
\* truth value of an optional float: None and 0.0 are false
Truthy(o) == IsSome(o) /\ ~IsZero(Get(o))

(***************************************************************************)
(* Coordinate codec: get_decimal_from_dms and set_gps_location.to_deg      *)
(***************************************************************************)
SecDen == 10000

\* a (numerator, denominator) pair of the metadata as the number PIL hands out
RatOf(pair) == Rat(pair[1], pair[2])

GetDecimalFromDms(d, ref) ==
    Bind(<<RatOf(d[1]), RatOf(d[2]), RatOf(d[3])>>, LAMBDA t :
    LET degrees == t[1]
        minutes == t[2]
        seconds == t[3]
    IN  Bind(RatAdd(RatDivInt(minutes, 60), RatDivInt(seconds, 3600)), LAMBDA ms :
        Bind(RatAdd(RatFrac(degrees), ms), LAMBDA sum :
             Float(ref \in {"S", "W"}, RatFloor(degrees), sum))))

\* to_deg with the seconds cut off instead of rounded
ToDegTruncate(v, loc) ==
    Bind(RatMulInt(v.frac, 60), LAMBDA t1 :
    LET loc_value == IF IsNegative(v) THEN loc[2] ELSE loc[1]
        deg       == v.whole
        min       == RatFloor(t1)
    IN  Bind(RatMulInt(RatFrac(t1), 60), LAMBDA s1 :
        Bind(RatMulInt(s1, SecDen), LAMBDA s2 :
             [dms |-> << <<deg, 1>>, <<min, 1>>, <<RatFloor(s2), SecDen>> >>,
              ref |-> loc_value])))

ToDeg(v, loc) ==
    Bind(RatMulInt(v.frac, 60), LAMBDA t1 :               \* (abs_value - deg) * 60
    LET loc_value == IF IsNegative(v) THEN loc[2] ELSE loc[1]
        deg       == v.whole                              \* int(abs_value)
        min       == RatFloor(t1)                         \* int(t1)
    IN  Bind(RatMulInt(RatFrac(t1), 60), LAMBDA s1 :      \* (t1 - min) * 60
        Bind(RatMulInt(s1, SecDen), LAMBDA s2 :           \* ... * 10000
             [dms |-> << <<deg, 1>>, <<min, 1>>, <<RoundHalfEven(s2), SecDen>> >>,
              ref |-> loc_value])))

LatLoc == <<"N", "S">>
LonLoc == <<"E", "W">>

(***************************************************************************)
(* to_deg followed by get_decimal_from_dms, called on their own            *)
(***************************************************************************)
MaxDen == 12

CoWholes == {0, 1, 59, 89, 90, 179, 180}

CoValues ==
    { Float(n, w, Rat(k, d)) :
        n \in BOOLEAN, w \in CoWholes, k \in 0..(MaxDen - 1), d \in 1..MaxDen }

\* the decimals of [-180, 180], without -0.0
CoInputs ==
    { x \in CoValues :
        /\ x.whole < 180 \/ (x.whole = 180 /\ x.frac.num = 0)
        /\ ~(x.neg /\ IsZero(x)) }

InitCoord ==
    /\ co_pc = "call"
    /\ value \in { Some(x) : x \in CoInputs }
    /\ dms = None
    /\ decimal = None
    /\ TsIdle
    /\ RsIdle
    /\ MainIdle

CallToDeg ==
    /\ co_pc = "call"
    /\ \E loc \in {LatLoc, LonLoc} : dms' = Some(ToDeg(Get(value), loc))
    /\ co_pc' = "enc"
    /\ UNCHANGED <<value, decimal, tsVars, rsVars, mainVars>>

CallGetDecimalFromDms ==
    /\ co_pc = "enc"
    /\ decimal' = Some(GetDecimalFromDms(Get(dms).dms, Get(dms).ref))
    /\ co_pc' = "dec"
    /\ UNCHANGED <<value, dms, tsVars, rsVars, mainVars>>

NextCoord == CallToDeg \/ CallGetDecimalFromDms

SpecCoord == InitCoord /\ [][NextCoord]_vars

\* |x - y| <= 1/tol for floats x, y
Within(x, y, tol) ==
    LET g  == GCD(x.frac.den, y.frac.den)
        l  == (x.frac.den \div g) * y.frac.den
        a  == x.frac.num * (l \div x.frac.den)
        b  == y.frac.num * (l \div y.frac.den)
        dw == x.whole - y.whole
        t  == IF x.neg = y.neg THEN dw * l + a - b ELSE a + b
    IN  /\ IF x.neg = y.neg THEN dw \in {0 - 1, 0, 1} ELSE x.whole = 0 /\ y.whole = 0
        /\ t <= l \div tol
        /\ 0 - t <= l \div tol

\* C10: to_deg then get_decimal_from_dms gives back the decimal within half
\* a unit of the seconds encoding (1/10000 arc second = 1/36000000 degree),
\* on the hemisphere side the sign of the decimal chose.
C10_RoundTrip ==
    co_pc = "dec" =>
        /\ Within(Get(value), Get(decimal), 2 * 3600 * SecDen)
        /\ IsNegative(Get(value)) <=> Get(decimal).neg
        /\ Get(dms).ref \in {"S", "W"} <=> IsNegative(Get(value))

\* A negative decimal whose seconds had to be rounded up went through.
C10_Witness ==
    /\ co_pc = "dec"
    /\ Get(value) = Float(TRUE, 179, Rat(6, 7))
    /\ Get(dms).dms = << <<179, 1>>, <<51, 1>>, <<257143, SecDen>> >>
    /\ Get(dms).ref = "W"
    /\ Get(decimal) # Get(value)

(***************************************************************************)
(* Filenames: lower(), endswith(), os.path.splitext                        *)
(***************************************************************************)
UpperCase ==
    <<"A", "B", "C", "D", "E", "F", "G", "H", "I", "J", "K", "L", "M",
      "N", "O", "P", "Q", "R", "S", "T", "U", "V", "W", "X", "Y", "Z">>
LowerCase ==
    <<"a", "b", "c", "d", "e", "f", "g", "h", "i", "j", "k", "l", "m",
      "n", "o", "p", "q", "r", "s", "t", "u", "v", "w", "x", "y", "z">>

LowerChar(c) ==
    IF \E k \in 1..26 : UpperCase[k] = c
    THEN LowerCase[CHOOSE k \in 1..26 : UpperCase[k] = c]
    ELSE c

Lower(s) == Bind(s, LAMBDA w : [k \in 1..Len(w) |-> LowerChar(w[k])])

EndsWithAny(s, exts) == \E e \in exts : EndsWith(s, e)

ExtPng == <<".", "p", "n", "g">>
ExtJpg == <<".", "j", "p", "g">>
ExtJpeg == <<".", "j", "p", "e", "g">>
ExtTif == <<".", "t", "i", "f">>
ExtTiff == <<".", "t", "i", "f", "f">>
ExtBmp == <<".", "b", "m", "p">>
ExtGif == <<".", "g", "i", "f">>

\* the extensions get_reference_images and main list
ListedExts == {ExtPng, ExtJpg, ExtJpeg, ExtTiff, ExtBmp, ExtGif}

IsListedImage(fn) == EndsWithAny(Lower(fn), ListedExts)

\* os.path.splitext(p)[0]: cut at the last dot, unless the name starts there
SplitextRoot(s) ==
    Bind({k \in 2..Len(s) : s[k] = "." /\ \E j \in 1..(k - 1) : s[j] # "."},
         LAMBDA dots :
            IF dots = {} THEN s
            ELSE SubSeq(s, 1, (CHOOSE k \in dots : \A j \in dots : j <= k) - 1))

(***************************************************************************)
(* Image metadata: get_exif_data, get_lat_lon                              *)
(***************************************************************************)
\* Image.open or image._getexif raises on this file
Unreadable == [kind |-> "error", GPSInfo |-> None]

\* EXIF without a GPSInfo tag
NoGps == [kind |-> "exif", GPSInfo |-> None]

GpsInfo(latdms, latref, londms, lonref) ==
    [GPSLatitude |-> latdms, GPSLatitudeRef |-> latref,
     GPSLongitude |-> londms, GPSLongitudeRef |-> lonref]

WithGps(info) == [kind |-> "exif", GPSInfo |-> Some(info)]

Dms(d, m, s) == << <<d, 1>>, <<m, 1>>, <<s, SecDen>> >>

Absent == [lat |-> None, lon |-> None]

GetLatLon(exif_data) ==
    IF IsSome(exif_data.GPSInfo)
    THEN LET gps_info == Get(exif_data.GPSInfo) IN
         IF /\ IsSome(gps_info.GPSLatitude)
            /\ IsSome(gps_info.GPSLatitudeRef)
            /\ IsSome(gps_info.GPSLongitude)
            /\ IsSome(gps_info.GPSLongitudeRef)
         THEN [lat |-> Some(GetDecimalFromDms(Get(gps_info.GPSLatitude),
                                              Get(gps_info.GPSLatitudeRef))),
               lon |-> Some(GetDecimalFromDms(Get(gps_info.GPSLongitude),
                                              Get(gps_info.GPSLongitudeRef)))]
         ELSE Absent
    ELSE Absent

(***************************************************************************)
(* Reference index: get_reference_images                                   *)
(***************************************************************************)
\* A directory is None (it does not exist) or the sequence os.listdir gives,
\* each file a record [name, meta].  A path is the file's name: the
\* directory part is the same for every file of a directory.
Indexed(f) == IsListedImage(f.name) /\ IsSome(ExtractTimestamp(f.name))

GetReferenceImages(directory) ==
    IF ~IsSome(directory) THEN << >>
    ELSE Bind(SelectSeq(Get(directory), Indexed), LAMBDA kept :
         [k \in 1..Len(kept) |->
            [time |-> Get(ExtractTimestamp(kept[k].name)),
             path |-> kept[k].name,
             filename |-> kept[k].name]])

\* the file Image.open(path) opens
FileAt(directory, path) ==
    CHOOSE f \in {Get(directory)[k] : k \in 1..Len(Get(directory))} : f.name = path

(***************************************************************************)
(* Closest-match resolver: find_closest_gps_in_reference                   *)
(***************************************************************************)
Abs(x) == Bind(x, LAMBDA v : IF v < 0 THEN 0 - v ELSE v)

\* list.sort(key=delta): ascending, equal keys kept in their order
RECURSIVE SortByDelta(_)
SortByDelta(cs) ==
    IF cs = << >> THEN << >>
    ELSE Bind(CHOOSE k \in 1..Len(cs) :
                 /\ \A j \in 1..Len(cs) : cs[k].delta <= cs[j].delta
                 /\ \A j \in 1..(k - 1) : cs[j].delta > cs[k].delta,
              LAMBDA m :
                 <<cs[m]>> \o SortByDelta(SubSeq(cs, 1, m - 1)
                                            \o SubSeq(cs, m + 1, Len(cs))))

\* the walk with an error ending it instead of being skipped
RECURSIVE WalkStopsOnError(_, _, _)
WalkStopsOnError(cs, directory, n) ==
    IF cs = << >> THEN [lat |-> None, lon |-> None, opened |-> n]
    ELSE LET image == FileAt(directory, Head(cs).ref.path).meta IN
         IF image.kind = "error"
         THEN [lat |-> None, lon |-> None, opened |-> n + 1]
         ELSE Bind(GetLatLon(image), LAMBDA ll :
              IF Truthy(ll.lat) /\ Truthy(ll.lon)
              THEN [lat |-> ll.lat, lon |-> ll.lon, opened |-> n + 1]
              ELSE WalkStopsOnError(Tail(cs), directory, n + 1))

\* for delta, ref in candidates: ...   (n counts the images opened so far)
RECURSIVE Walk(_, _, _)
Walk(cs, directory, n) ==
    IF cs = << >> THEN [lat |-> None, lon |-> None, opened |-> n]
    ELSE LET image == FileAt(directory, Head(cs).ref.path).meta IN
         IF image.kind = "error"
         THEN Walk(Tail(cs), directory, n + 1)        \* except Exception: continue
         ELSE Bind(GetLatLon(image), LAMBDA ll :
              IF Truthy(ll.lat) /\ Truthy(ll.lon)     \* if lat and lon:
              THEN [lat |-> ll.lat, lon |-> ll.lon, opened |-> n + 1]
              ELSE Walk(Tail(cs), directory, n + 1))

Candidates(target_time, refs) ==
    Bind(target_time, LAMBDA t :
    [k \in 1..Len(refs) |->
        [delta |-> Abs(refs[k].time - t), ref |-> refs[k]]])

\* the resolver without its early return: a name without a timestamp is
\* given the time 0
FindClosestNoEarlyReturn(target_filename, refs, directory) ==
    Bind(ExtractTimestamp(target_filename), LAMBDA target_time :
    Bind(SortByDelta(Candidates(IF IsSome(target_time) THEN Get(target_time) ELSE 0,
                                refs)),
         LAMBDA sorted : Walk(sorted, directory, 0)))

FindClosestGpsInReference(target_filename, refs, directory) ==
    Bind(ExtractTimestamp(target_filename), LAMBDA target_time :
    IF ~IsSome(target_time)
    THEN [lat |-> None, lon |-> None, opened |-> 0]
    ELSE Bind(Candidates(Get(target_time), refs), LAMBDA candidates :
         IF candidates = << >>
         THEN [lat |-> None, lon |-> None, opened |-> 0]
         ELSE Bind(SortByDelta(candidates), LAMBDA sorted :
                   Walk(sorted, directory, 0))))

(***************************************************************************)
(* The files of the scenarios                                              *)
(***************************************************************************)
ImgPrefix == <<"I", "M", "G", "_">>
RefPrefix == <<"R", "E", "F", "_">>
NoDateName == <<"I", "M", "G", "_", "n", "o", "d", "a", "t", "e">> \o ExtJpg

\* f"{prefix}20220815_{hour:02d}{minute:02d}00{ext}"
Aug15(prefix, hour, minute, ext) ==
    FormatName([prefix |-> prefix, year |-> YearDigits, month |-> 8, day |-> 15,
                sep |-> "_", hour |-> hour, minute |-> minute, second |-> 0,
                tail |-> ext])

GpsA == GpsInfo(Some(Dms(48, 51, 237600)), Some("N"), Some(Dms(2, 21, 79200)), Some("E"))
GpsB == GpsInfo(Some(Dms(35, 40, 343200)), Some("N"), Some(Dms(139, 39, 10800)), Some("E"))
GpsC == GpsInfo(Some(Dms(33, 52, 76800)), Some("S"), Some(Dms(151, 12, 334800)), Some("E"))
\* a place on the equator
GpsZ == GpsInfo(Some(Dms(0, 0, 0)), Some("N"), Some(Dms(10, 0, 0)), Some("E"))

RefNoGps5 == [name |-> Aug15(RefPrefix, 12, 10, ExtJpg), meta |-> NoGps]
RefError5 == [name |-> Aug15(RefPrefix, 12, 20, ExtJpg), meta |-> Unreadable]
RefA12 == [name |-> Aug15(RefPrefix, 12, 27, ExtJpg), meta |-> WithGps(GpsA)]
RefC12 == [name |-> Aug15(RefPrefix, 12, 3, ExtJpg), meta |-> WithGps(GpsC)]
RefB40 == [name |-> Aug15(RefPrefix, 12, 55, ExtJpg), meta |-> WithGps(GpsB)]
RefZ2 == [name |-> Aug15(RefPrefix, 12, 17, ExtJpg), meta |-> WithGps(GpsZ)]
RefNoDate == [name |-> NoDateName, meta |-> WithGps(GpsB)]

RefPool == {RefNoGps5, RefError5, RefA12, RefC12, RefB40, RefZ2, RefNoDate}

MaxRefs == 3

\* the sequences of at most n different elements of S
ListingsUpTo(S, n) ==
    UNION { { q \in [1..k -> S] : \A a, b \in 1..k : a # b => q[a] # q[b] } :
            k \in 0..n }

RefDirs == {None} \cup { Some(q) : q \in ListingsUpTo(RefPool, MaxRefs) }

TargetPng == Aug15(ImgPrefix, 12, 15, ExtPng)
TargetSamsung == Aug15(SamsungPrefix \o <<"_">>, 21, 15, ExtPng)

ResolveTargets == {TargetPng, TargetSamsung, NoDateName}

(***************************************************************************)
(* get_reference_images then find_closest_gps_in_reference, on their own   *)
(***************************************************************************)
InitResolve ==
    /\ pc = "index"
    /\ refDir \in RefDirs
    /\ target \in ResolveTargets
    /\ reference_images = << >>
    /\ lat = None /\ lon = None /\ opened = 0
    /\ TsIdle /\ CoIdle /\ MainIdle

CallGetReferenceImages ==
    /\ pc = "index"
    /\ reference_images' = GetReferenceImages(refDir)
    /\ pc' = "resolve"
    /\ UNCHANGED <<refDir, target, lat, lon, opened, tsVars, coVars, mainVars>>

CallFindClosest ==
    /\ pc = "resolve"
    /\ \E r \in {FindClosestGpsInReference(target, reference_images, refDir)} :
         /\ lat' = r.lat
         /\ lon' = r.lon
         /\ opened' = r.opened
    /\ pc' = "resolved"
    /\ UNCHANGED <<refDir, reference_images, target, tsVars, coVars, mainVars>>

NextResolve == CallGetReferenceImages \/ CallFindClosest

SpecResolve == InitResolve /\ [][NextResolve]_vars

\* ---- what the claims say of a resolve, stated without the sort and the walk
Delta(k) == Abs(reference_images[k].time - Get(ExtractTimestamp(target)))

\* entry a comes before entry b in ascending delta, ties in index order
Ranks(a, b) == Delta(a) < Delta(b) \/ (Delta(a) = Delta(b) /\ a < b)

MetaOf(k) == FileAt(refDir, reference_images[k].path).meta

\* the image opens and its metadata holds a latitude and a longitude tag
PresentAt(k) ==
    /\ MetaOf(k).kind = "exif"
    /\ IsSome(MetaOf(k).GPSInfo)
    /\ IsSome(Get(MetaOf(k).GPSInfo).GPSLatitude)
    /\ IsSome(Get(MetaOf(k).GPSInfo).GPSLongitude)

\* the image opens and get_lat_lon gives two numbers other than zero
NonZeroAt(k) ==
    /\ MetaOf(k).kind = "exif"
    /\ Truthy(GetLatLon(MetaOf(k)).lat)
    /\ Truthy(GetLatLon(MetaOf(k)).lon)

FirstOf(S) == CHOOSE k \in S : \A j \in S : j = k \/ Ranks(k, j)

Entries == 1..Len(reference_images)

\* C1: resolve returns the coordinate of the first entry, in ascending delta
\* with ties in index order, whose image holds a coordinate (latitude and
\* longitude tags present), whatever the coordinate.
C1_FirstPresentWins ==
    (pc = "resolved" /\ IsSome(ExtractTimestamp(target))) =>
        LET present == {k \in Entries : PresentAt(k)} IN
        IF present = {} THEN lat = None /\ lon = None
        ELSE /\ lat = GetLatLon(MetaOf(FirstOf(present))).lat
             /\ lon = GetLatLon(MetaOf(FirstOf(present))).lon

\* C6: an image that fails to open or to give its metadata is passed over:
\* the result is the coordinate of the first entry in delta order that opens
\* and gives a coordinate the walk takes, also when unreadable entries come
\* before it; with no such entry the result is None.
C6_ErrorsSkipped ==
    (pc = "resolved" /\ IsSome(ExtractTimestamp(target))) =>
        LET taken == {k \in Entries : NonZeroAt(k)} IN
        IF taken = {} THEN lat = None /\ lon = None
        ELSE /\ lat = GetLatLon(MetaOf(FirstOf(taken))).lat
             /\ lon = GetLatLon(MetaOf(FirstOf(taken))).lon

\* An unreadable image 5 minutes away came before the one 12 minutes away,
\* whose coordinate was returned after both were opened.
C6_Witness ==
    /\ pc = "resolved"
    /\ target = TargetPng
    /\ refDir = Some(<<RefA12, RefError5>>)
    /\ opened = 2
    /\ lat = Some(Float(FALSE, 48, Rat(8566, 10000)))
    /\ lon = Some(Float(FALSE, 2, Rat(3522, 10000)))

\* C7: resolve returns (None, None) for a target without a timestamp, then
\* without opening a reference image, and for an empty index or an index no
\* entry of which holds a coordinate.
C7_Absent ==
    pc = "resolved" =>
        /\ ~IsSome(ExtractTimestamp(target)) =>
              lat = None /\ lon = None /\ opened = 0
        /\ reference_images = << >> => lat = None /\ lon = None
        /\ (IsSome(ExtractTimestamp(target)) /\ \A k \in Entries : ~PresentAt(k)) =>
              lat = None /\ lon = None

\* A name without a timestamp was resolved against an index with GPS in it.
C7_Witness ==
    /\ pc = "resolved"
    /\ target = NoDateName
    /\ refDir = Some(<<RefA12, RefNoGps5>>)
    /\ Len(reference_images) = 2
    /\ lat = None /\ lon = None /\ opened = 0

(***************************************************************************)
(* Metadata writer (set_gps_location) and the batch loop of main           *)
(***************************************************************************)
TiffExts == {ExtJpg, ExtJpeg, ExtTif, ExtTiff}

IsTiffBased(path) == EndsWithAny(Lower(path), TiffExts)

\* the format gate taking every file that is not TIFF-based for convertible
IsAnyRaster(path) == TRUE

IsLosslessRaster(path) == EndsWith(Lower(path), ExtPng)

\* os.path.splitext(filepath)[0] + ".jpg"
JpgPath(path) == SplitextRoot(path) \o ExtJpg

\* A file's content: whose picture it is, its container, its GPS tags
NewFile(name) ==
    [pixels |-> name,
     format |-> IF IsLosslessRaster(name) THEN "PNG"
                ELSE IF IsTiffBased(name) THEN "JPEG" ELSE "OTHER",
     gps |-> None]

\* img.convert('RGB') saved as JPEG: the picture, no metadata
Transcode(content) == [pixels |-> content.pixels, format |-> "JPEG", gps |-> None]

\* the four GPS fields set in the tag structure, which is then inserted
WriteGps(content, la, lo) ==
    [content EXCEPT !.gps = Some([lat |-> ToDeg(la, LatLoc), lon |-> ToDeg(lo, LonLoc)])]

PhotosDir == <<"p", "h", "o", "t", "o", "s", "/">>
ScreenshotDir == <<"s", "c", "r", "e", "e", "n", "s", "h", "o", "t", "/">>

\* the screenshot whose base name is the final filename's, hidden files aside
ScreenshotFor(final_filename, dir) ==
    IF ~IsSome(dir) THEN None
    ELSE Bind(Lower(SplitextRoot(final_filename)), LAMBDA target_base :
         LET fs == Get(dir) IN
         Bind({k \in 1..Len(fs) :
                  /\ ~StartsWith(fs[k], <<".">>)
                  /\ Lower(SplitextRoot(fs[k])) = target_base},
              LAMBDA hits :
                 IF hits = {} THEN None
                 ELSE Some(ScreenshotDir
                           \o fs[CHOOSE k \in hits : \A j \in hits : k <= j])))

PhotoData(la, lo, final_filename, dir) ==
    [lat |-> la, lon |-> lo,
     img |-> PhotosDir \o final_filename,
     title |-> final_filename,
     screenshot |-> ScreenshotFor(final_filename, dir)]

\* ---- the files of the batch scenarios
TargetJpg == Aug15(ImgPrefix, 12, 15, ExtJpg)
TargetBmp == Aug15(ImgPrefix, 12, 15, ExtBmp)
TargetSamsungUpper == Aug15(SamsungPrefix \o <<"_">>, 21, 40, <<".", "P", "N", "G">>)
NotesTxt == <<"n", "o", "t", "e", "s", ".", "t", "x", "t">>

TargetPool == {TargetPng, TargetJpg, TargetSamsungUpper, TargetBmp, NotesTxt}

MaxTargets == 2

Listings == {None} \cup { Some(q) : q \in ListingsUpTo(TargetPool, MaxTargets) }

DiskPaths == TargetPool \cup { JpgPath(n) : n \in TargetPool }

BatchRefDirs ==
    { None, Some(<<RefNoGps5, RefA12>>), Some(<<RefC12, RefError5, RefA12>>) }

ScreenshotDirs ==
    { None,
      Some(<< <<".", "D", "S">>, Aug15(ImgPrefix, 12, 15, <<".", "P", "N", "G">>) >>) }

Files == IF IsSome(listing) THEN Get(listing) ELSE << >>

Exists(path) == IsSome(disk[path])

Init ==
    /\ pc = "main"
    /\ refDir \in BatchRefDirs
    /\ reference_images = << >>
    /\ target = << >>
    /\ lat = None /\ lon = None /\ opened = 0
    /\ listing \in Listings
    /\ screenshot_dir \in ScreenshotDirs
    /\ piexif \in BOOLEAN
    /\ disk = [p \in DiskPaths |->
                 IF \E k \in 1..Len(Files) : Files[k] = p
                 THEN Some(NewFile(p)) ELSE None]
    /\ i = 0
    /\ filepath = << >> /\ original_filepath = << >> /\ final_path = << >>
    /\ new_photos_data = << >>
    /\ processed = [k \in 1..Len(Files) |-> 0]
    /\ persisted = {} /\ recorded = << >> /\ raised = {}
    /\ failed = FALSE /\ removeFailed = FALSE
    /\ preDisk = disk
    /\ TsIdle /\ CoIdle

codecVars == <<tsVars, coVars>>
envVars == <<refDir, listing, screenshot_dir, piexif>>
writerVars == <<filepath, original_filepath, final_path>>

\* main up to the loop: the index is built; without PHOTOS_DIR main returns
MainStart ==
    /\ pc = "main"
    /\ reference_images' = GetReferenceImages(refDir)
    /\ IF IsSome(listing) THEN pc' = "loop" /\ i' = 1
                          ELSE pc' = "done" /\ i' = i
    /\ UNCHANGED <<codecVars, envVars, writerVars, target, lat, lon, opened, disk,
                   new_photos_data, processed, persisted, recorded, raised,
                   failed, removeFailed, preDisk>>

\* a listed file that is no image: the loop goes on
LoopSkip ==
    /\ pc = "loop"
    /\ i <= Len(Files)
    /\ ~IsListedImage(Files[i])
    /\ i' = i + 1
    /\ UNCHANGED <<codecVars, envVars, writerVars, pc, reference_images, target,
                   lat, lon, opened, disk, new_photos_data, processed, persisted,
                   recorded, raised, failed, removeFailed, preDisk>>

\* the loop body up to the call of set_gps_location, or the skip
LoopResolve ==
    /\ pc = "loop"
    /\ i <= Len(Files)
    /\ IsListedImage(Files[i])
    /\ \E r \in {FindClosestGpsInReference(Files[i], reference_images, refDir)} :
         /\ lat' = r.lat
         /\ lon' = r.lon
         /\ opened' = r.opened
         /\ IF Truthy(r.lat) /\ Truthy(r.lon)
            THEN /\ pc' = "writer"
                 /\ filepath' = Files[i]
                 /\ original_filepath' = Files[i]
                 /\ i' = i
            ELSE /\ pc' = "loop"
                 /\ i' = i + 1
                 /\ UNCHANGED <<filepath, original_filepath>>
    /\ target' = Files[i]
    /\ processed' = [processed EXCEPT ![i] = @ + 1]
    /\ failed' = FALSE
    /\ removeFailed' = FALSE
    /\ preDisk' = disk
    /\ UNCHANGED <<codecVars, envVars, final_path, reference_images, disk,
                   new_photos_data, persisted, recorded, raised>>

LoopExit ==
    /\ pc = "loop"
    /\ i > Len(Files)
    /\ pc' = "done"
    /\ UNCHANGED <<codecVars, envVars, writerVars, reference_images, target, lat,
                   lon, opened, disk, i, new_photos_data, processed, persisted,
                   recorded, raised, failed, removeFailed, preDisk>>

\* the ImportError of the writer leaving main
WriterRaisesAborts ==
    /\ pc = "writer"
    /\ ~piexif
    /\ raised' = raised \cup {i}
    /\ pc' = "aborted"
    /\ UNCHANGED <<codecVars, envVars, writerVars, reference_images, target, lat,
                   lon, opened, disk, i, new_photos_data, processed, persisted,
                   recorded, failed, removeFailed, preDisk>>

\* `import piexif` fails: set_gps_location raises, main's except takes it
WriterRaises ==
    /\ pc = "writer"
    /\ ~piexif
    /\ raised' = raised \cup {i}
    /\ pc' = "loop"
    /\ i' = i + 1
    /\ UNCHANGED <<codecVars, envVars, writerVars, reference_images, target, lat,
                   lon, opened, disk, new_photos_data, processed, persisted,
                   recorded, failed, removeFailed, preDisk>>

\* a TIFF-based file goes to the metadata write as it is
WriterTiff ==
    /\ pc = "writer"
    /\ piexif
    /\ IsTiffBased(filepath)
    /\ pc' = "persist"
    /\ UNCHANGED <<codecVars, envVars, writerVars, reference_images, target, lat,
                   lon, opened, disk, i, new_photos_data, processed, persisted,
                   recorded, raised, failed, removeFailed, preDisk>>

\* a PNG is saved as JPEG beside it; the new path is the working path
WriterConvert ==
    /\ pc = "writer"
    /\ piexif
    /\ ~IsTiffBased(filepath)
    /\ IsLosslessRaster(filepath)
    /\ disk' = [disk EXCEPT ![JpgPath(filepath)] = Some(Transcode(Get(disk[filepath])))]
    /\ filepath' = JpgPath(filepath)
    /\ pc' = "persist"
    /\ UNCHANGED <<codecVars, envVars, original_filepath, final_path,
                   reference_images, target, lat, lon, opened, i, new_photos_data,
                   processed, persisted, recorded, raised, failed, removeFailed,
                   preDisk>>

\* Image.open, convert or save raises: the original path is returned
WriterConvertFails ==
    /\ pc = "writer"
    /\ piexif
    /\ ~IsTiffBased(filepath)
    /\ IsLosslessRaster(filepath)
    /\ final_path' = original_filepath
    /\ failed' = TRUE
    /\ pc' = "append"
    /\ UNCHANGED <<codecVars, envVars, filepath, original_filepath,
                   reference_images, target, lat, lon, opened, disk, i,
                   new_photos_data, processed, persisted, recorded, raised,
                   removeFailed, preDisk>>

\* neither family: refused, the original path is returned
WriterUnsupported ==
    /\ pc = "writer"
    /\ piexif
    /\ ~IsTiffBased(filepath)
    /\ ~IsLosslessRaster(filepath)
    /\ final_path' = original_filepath
    /\ pc' = "append"
    /\ UNCHANGED <<codecVars, envVars, filepath, original_filepath,
                   reference_images, target, lat, lon, opened, disk, i,
                   new_photos_data, processed, persisted, recorded, raised, failed,
                   removeFailed, preDisk>>

\* piexif.load, the four fields, piexif.dump and piexif.insert succeed
PersistOk ==
    /\ pc = "persist"
    /\ disk' = [disk EXCEPT ![filepath] = Some(WriteGps(Get(@), Get(lat), Get(lon)))]
    /\ persisted' = persisted \cup {i}
    /\ pc' = "cleanup"
    /\ UNCHANGED <<codecVars, envVars, writerVars, reference_images, target, lat,
                   lon, opened, i, new_photos_data, processed, recorded, raised,
                   failed, removeFailed, preDisk>>

\* the failing write that also removes the original of a converted file
PersistFailsRemovesOriginal ==
    /\ pc = "persist"
    /\ final_path' = original_filepath
    /\ failed' = TRUE
    /\ disk' = IF filepath # original_filepath
               THEN [disk EXCEPT ![original_filepath] = None] ELSE disk
    /\ pc' = "append"
    /\ UNCHANGED <<codecVars, envVars, filepath, original_filepath,
                   reference_images, target, lat, lon, opened, i, new_photos_data,
                   processed, persisted, recorded, raised, removeFailed, preDisk>>

\* piexif.load, dump or insert raises: the original path is returned
PersistFails ==
    /\ pc = "persist"
    /\ final_path' = original_filepath
    /\ failed' = TRUE
    /\ pc' = "append"
    /\ UNCHANGED <<codecVars, envVars, filepath, original_filepath,
                   reference_images, target, lat, lon, opened, disk, i,
                   new_photos_data, processed, persisted, recorded, raised,
                   removeFailed, preDisk>>

\* after a conversion the original is removed; the working path is returned
CleanupRemove ==
    /\ pc = "cleanup"
    /\ filepath # original_filepath
    /\ Exists(original_filepath)
    /\ disk' = [disk EXCEPT ![original_filepath] = None]
    /\ final_path' = filepath
    /\ pc' = "append"
    /\ UNCHANGED <<codecVars, envVars, filepath, original_filepath,
                   reference_images, target, lat, lon, opened, i, new_photos_data,
                   processed, persisted, recorded, raised, failed, removeFailed,
                   preDisk>>

\* os.remove raises OSError, which is passed over
CleanupRemoveFails ==
    /\ pc = "cleanup"
    /\ filepath # original_filepath
    /\ Exists(original_filepath)
    /\ removeFailed' = TRUE
    /\ final_path' = filepath
    /\ pc' = "append"
    /\ UNCHANGED <<codecVars, envVars, filepath, original_filepath,
                   reference_images, target, lat, lon, opened, disk, i,
                   new_photos_data, processed, persisted, recorded, raised, failed,
                   preDisk>>

\* no conversion took place (or the original is gone): nothing to remove
CleanupNone ==
    /\ pc = "cleanup"
    /\ ~(filepath # original_filepath /\ Exists(original_filepath))
    /\ final_path' = filepath
    /\ pc' = "append"
    /\ UNCHANGED <<codecVars, envVars, filepath, original_filepath,
                   reference_images, target, lat, lon, opened, disk, i,
                   new_photos_data, processed, persisted, recorded, raised, failed,
                   removeFailed, preDisk>>

\* main after set_gps_location returned: the record is built and appended
AppendRecord ==
    /\ pc = "append"
    /\ new_photos_data' =
          Append(new_photos_data, PhotoData(lat, lon, final_path, screenshot_dir))
    /\ recorded' = Append(recorded, i)
    /\ i' = i + 1
    /\ pc' = "loop"
    /\ UNCHANGED <<codecVars, envVars, writerVars, reference_images, target, lat,
                   lon, opened, disk, processed, persisted, raised, failed,
                   removeFailed, preDisk>>

Next ==
    \/ MainStart
    \/ LoopSkip
    \/ LoopResolve
    \/ LoopExit
    \/ WriterRaises
    \/ WriterTiff
    \/ WriterConvert
    \/ WriterConvertFails
    \/ WriterUnsupported
    \/ PersistOk
    \/ PersistFails
    \/ CleanupRemove
    \/ CleanupRemoveFails
    \/ CleanupNone
    \/ AppendRecord

Spec == Init /\ [][Next]_vars

\* main is one thread running to its end: a step that can be taken is taken
FairSpec == Spec /\ WF_vars(Next)

\* ---- what the claims say of the writer and the loop
\* a container of neither family, by the extensions the specification lists
Unsupported(path) ==
    ~EndsWithAny(Lower(path), {ExtJpg, ExtJpeg, ExtTif, ExtTiff, ExtPng})

\* the number of records made for position k of the listing
RecordsFor(k) == Cardinality({r \in 1..Len(recorded) : recorded[r] = k})

\* the decimal the GPS tags of a file decode to
DecodedLat(content) ==
    GetDecimalFromDms(Get(content.gps).lat.dms, Get(content.gps).lat.ref)
DecodedLon(content) ==
    GetDecimalFromDms(Get(content.gps).lon.dms, Get(content.gps).lon.ref)

\* C2: when load, convert or persist raises on a TIFF-based or PNG input,
\* the writer returns the original path and every file is as it was before
\* the attempt.
C2_FailureLeavesDisk ==
    (pc = "append" /\ failed) =>
        /\ final_path = original_filepath
        /\ disk = preDisk

\* C3: after the loop the result list holds exactly one record for a listed
\* file whose coordinate was resolved and persisted into the file, and none
\* for any other.
C3_RecordIffGeotagged ==
    pc = "done" =>
        \A k \in 1..Len(Files) :
            RecordsFor(k) = IF k \in persisted THEN 1 ELSE 0

\* every file before the loop position went through the body once if it is
\* an image and never otherwise, no file after it was touched, and the body
\* of the file at the position is entered once before the writer runs
LoopInOrder ==
    \A k \in 1..Len(Files) :
        /\ processed[k] <= 1
        /\ k > i => processed[k] = 0
        /\ k < i => processed[k] = (IF IsListedImage(Files[k]) THEN 1 ELSE 0)
        /\ (k = i /\ pc \in {"writer", "persist", "cleanup", "append"}) =>
              processed[k] = 1

\* C4: no failure on one photo ends the run: the listed images are taken in
\* listing order, each once, one at a time, and the loop comes to its end
\* with the whole listing behind it.
C4_NeverAborts ==
    /\ [](pc \in {"main", "loop", "writer", "persist", "cleanup", "append", "done"})
    /\ []LoopInOrder
    /\ [](pc = "done" /\ IsSome(listing) => i = Len(Files) + 1)
    /\ <>(pc = "done")

\* The writer raised on the first photo and the second was still processed.
C4_Witness ==
    /\ pc = "done"
    /\ Len(Files) >= 2
    /\ 1 \in raised
    /\ processed[2] = 1
    /\ i = Len(Files) + 1

\* C5: whenever the PNG original of a listed file is gone, its .jpg output
\* exists as a JPEG carrying the coordinate resolved for it, the write of
\* that coordinate had succeeded, and the writer returns the output's path;
\* a failed deletion leaves the write a success returning the output's path.
C5_RemovedOnlyAfterPersist ==
    /\ \A k \in 1..Len(Files) :
          (IsListedImage(Files[k]) /\ IsLosslessRaster(Files[k]) /\ ~Exists(Files[k])) =>
             LET out == JpgPath(Files[k])
                 r == FindClosestGpsInReference(Files[k], reference_images, refDir)
             IN  /\ k \in persisted
                 /\ Exists(out)
                 /\ Get(disk[out]).format = "JPEG"
                 /\ Get(disk[out]).pixels = Files[k]
                 /\ IsSome(Get(disk[out]).gps)
                 /\ Within(Get(r.lat), DecodedLat(Get(disk[out])), 2 * 3600 * SecDen)
                 /\ Within(Get(r.lon), DecodedLon(Get(disk[out])), 2 * 3600 * SecDen)
                 /\ (k = i /\ pc = "append") => final_path = out
                 /\ k < i => \E n \in 1..Len(recorded) :
                                recorded[n] = k /\ new_photos_data[n].title = out
    /\ (pc = "append" /\ removeFailed) =>
          /\ final_path = JpgPath(original_filepath)
          /\ ~failed
          /\ i \in persisted
          /\ IsSome(Get(disk[final_path]).gps)

\* The PNG was converted, tagged and removed; the writer returned the .jpg.
C5_Witness ==
    /\ pc = "append"
    /\ original_filepath = TargetSamsungUpper
    /\ ~Exists(TargetSamsungUpper)
    /\ final_path = JpgPath(TargetSamsungUpper)
    /\ Get(disk[final_path]).gps =
          Some([lat |-> [dms |-> Dms(48, 51, 237600), ref |-> "N"],
                lon |-> [dms |-> Dms(2, 21, 79200), ref |-> "E"]])

\* C8: a file that is neither TIFF-based nor PNG is refused: the writer
\* returns the original path, and from the call on no file is created,
\* changed or deleted; the file stays as it was to the end of the run.
C8_UnsupportedUntouched ==
    /\ (pc \in {"writer", "persist", "cleanup", "append"}
          /\ Unsupported(original_filepath)) =>
          /\ disk = preDisk
          /\ pc \in {"writer", "append"}
          /\ pc = "append" => final_path = original_filepath /\ i \notin persisted
    /\ \A k \in 1..Len(Files) :
          (IsListedImage(Files[k]) /\ Unsupported(Files[k])) =>
             disk[Files[k]] = Some(NewFile(Files[k]))

\* The writer returned from a .bmp with its path and the disk as before.
C8_Witness ==
    /\ pc = "append"
    /\ original_filepath = TargetBmp
    /\ final_path = TargetBmp
    /\ disk = preDisk
    /\ piexif

====
